---- MODULE Spec2Model ----
(***************************************************************************)
(* Client-side job synchronisation of the project pages:                   *)
(*   ProjectDetail   (pages/ProjectDetail.tsx, src/unnamed/part_005)       *)
(*   ProjectProvider (context/ProjectContext.tsx)                          *)
(*   Dashboard       (pages/Dashboard.tsx, src/unnamed/part_004)           *)
(* The server is the environment: it owns the job records, answers the     *)
(* requests and pushes frames over the WebSocket.                          *)
(***************************************************************************)
EXTENDS Integers, Sequences, FiniteSets, Bags, TLC

VARIABLES
    server,      \* server-side job records, by project id
    projectId,   \* ProjectDetail: route parameter
    project,     \* ProjectDetail: useState<Project | null>
    loading,     \* ProjectDetail: useState(true)
    error,       \* ProjectDetail: useState<string | null>
    isRunning,   \* ProjectDetail: useState(false)
    ws,          \* ProjectDetail: readyState of ws.current
    loads,       \* ProjectDetail: getProject calls awaiting their response
    cmds,        \* ProjectDetail: runProject / cancelProject calls awaiting their response
    projects,    \* ProjectProvider: useState<Project[]>([])
    listLoading, \* ProjectProvider: useState(false)
    listError,   \* ProjectProvider: useState<string | null>(null)
    fetches,     \* ProjectProvider: fetchProjects calls awaiting their response
    mounted,     \* Dashboard: the component is mounted
    interval,    \* Dashboard: the setInterval timer is armed
    mJob,        \* merge: the page's job state (project, isRunning)
    mOnce,       \* merge: that state after the first application of mUpd
    mUpd,        \* merge: the update (status_update frame or pulled snapshot)
    mStep,       \* merge: number of applications of mUpd done
    pingTimer,   \* ProjectDetail: number of pingInterval timers that are armed
    silence,     \* ProjectDetail: ping periods elapsed since the last frame arrived
    others,      \* ProjectDetail: sockets of earlier effect runs that are not closed yet
    crashed,     \* the React tree was torn down by an error thrown while rendering
    errorToast,  \* ProjectDetail: description of the toast of the last error frame
    create,      \* ProjectCreate: position and result of handleSubmit
    qLast,       \* frame sequence: completion_percentage of the last frame applied
    qMax,        \* frame sequence: largest completion_percentage seen so far
    dropped      \* the status_update frame last received while project was null

detailVars == <<projectId, project, loading, error, isRunning, ws, loads, cmds>>
listVars == <<projects, listLoading, listError, fetches, mounted, interval>>
mergeVars == <<mJob, mOnce, mUpd, mStep>>
channelVars == <<pingTimer, silence, others, crashed, errorToast>>
createVars == <<create>>
seqVars == <<qLast, qMax, dropped>>
vars == <<server, detailVars, listVars, mergeVars, channelVars, createVars, seqVars>>

----------------------------------------------------------------------------
\* Bounds of the model

MaxGen == 2
MaxLoads == 2
MaxCmds == 1
MaxFetch == 2
MaxFrames == 3
MaxSilence == 3
MaxOld == 2

----------------------------------------------------------------------------
\* Values

Null == [null |-> TRUE]
NoError == "null"

\* ProjectCreate is not mounted
NoCreate == [pc |-> "none", id |-> "none"]

ProjectIds == {"p1"}
Terminal == {"completed", "partially_completed", "failed", "cancelled"}
Statuses == {"created", "running"} \cup Terminal

ServerPcts == <<0, 10, 65>>
FramePcts == {0, 10, 65}
FrameNodes == {"", "plan"}

Job(id, st, pct, node, errs, art, gen) ==
    [project_id |-> id, name |-> "App", requirements |-> "Build a todo app",
     status |-> st, completion_percentage |-> pct, current_node |-> node,
     errors |-> errs, artifacts |-> art, generation |-> gen]

CreatedJob(id) == Job(id, "created", 0, "", <<>>, 0, 1)

\* status_update.data: any subset of {status, completion_percentage, current_node}
StatusPart == {<<>>} \cup {[status |-> s] : s \in Statuses}
PctPart == {<<>>} \cup {[completion_percentage |-> p] : p \in FramePcts}
NodePart == {<<>>} \cup {[current_node |-> n] : n \in FrameNodes}
Frames == {(a @@ b) @@ c : a \in StatusPart, b \in PctPart, c \in NodePart}

Has(f, k) == k \in DOMAIN f

\* the frames that carry one field: a frame of several fields acts on the page
\* as its fields one after the other
PushFrames == {f \in Frames : Cardinality(DOMAIN f) = 1}

\* error.data: with or without a message
ErrorFrames == {<<>>} \cup {[message |-> m] : m \in {"", "node failed"}}

----------------------------------------------------------------------------
\* The server (environment)

\* POST /api/projects/{id}/run accepted
ServerStart(j) ==
    [j EXCEPT !.status = "running", !.completion_percentage = 0,
              !.current_node = "", !.errors = <<>>, !.artifacts = 0,
              !.generation = IF j.status \in Terminal THEN @ + 1 ELSE @]

\* POST /api/projects/{id}/cancel accepted
ServerCancel(j) == [j EXCEPT !.status = "cancelled"]

NextPct(p) == IF p = ServerPcts[1] THEN ServerPcts[2] ELSE ServerPcts[3]

\* the executor advances a running job
ServerProgress(id) ==
    /\ server[id].status = "running"
    /\ server[id].completion_percentage < ServerPcts[3]
    /\ server' = [server EXCEPT ![id].completion_percentage = NextPct(@),
                                ![id].current_node = "plan"]
    /\ UNCHANGED <<detailVars, listVars, mergeVars,
                   channelVars, createVars, seqVars>>

\* the executor ends a running job after its last stage
ServerFinish(id, st) ==
    /\ server[id].status = "running"
    /\ server[id].completion_percentage = ServerPcts[3]
    /\ server' = [server EXCEPT
          ![id].status = st,
          ![id].completion_percentage = IF st = "completed" THEN 100 ELSE @,
          ![id].errors = IF st = "failed" THEN <<"generation failed">> ELSE @,
          ![id].artifacts = IF st = "failed" THEN 0 ELSE server[id].generation]
    /\ UNCHANGED <<detailVars, listVars, mergeVars,
                   channelVars, createVars, seqVars>>

----------------------------------------------------------------------------
\* ProjectDetail

\* StatusUpdate with the percentage of the frame added to the job's
StatusUpdate_Adds(prev, data) ==
    IF prev = Null THEN prev
    ELSE [prev EXCEPT
           !.status = IF Has(data, "status") /\ data.status # ""
                      THEN data.status ELSE @,
           !.completion_percentage =
                      IF Has(data, "completion_percentage") /\ data.completion_percentage # 0
                      THEN @ + data.completion_percentage ELSE @,
           !.current_node = IF Has(data, "current_node") /\ data.current_node # ""
                      THEN data.current_node ELSE @]

\* the updater of setProject in the status_update branch
StatusUpdate(prev, data) ==
    IF prev = Null THEN prev
    ELSE [prev EXCEPT
           !.status = IF Has(data, "status") /\ data.status # ""
                      THEN data.status ELSE @,
           !.completion_percentage =
                      IF Has(data, "completion_percentage") /\ data.completion_percentage # 0
                      THEN data.completion_percentage ELSE @,
           !.current_node = IF Has(data, "current_node") /\ data.current_node # ""
                      THEN data.current_node ELSE @]

\* the statuses on which the status_update branch stops the running flag
StopStatuses == {"completed", "failed", "cancelled"}

\* the running flag after a status_update frame
RunningAfter(running, data) ==
    IF Has(data, "status") /\ data.status = "running" THEN TRUE
    ELSE IF Has(data, "status") /\ data.status \in StopStatuses THEN FALSE
    ELSE running

\* the synchronous part of loadProject: up to the await of getProject
loadProject ==
    /\ BagCardinality(loads) < MaxLoads
    /\ loading' = TRUE
    /\ error' = NoError
    /\ loads' = loads (+) SetToBag({[id |-> projectId, data |-> server[projectId]]})

\* ws.current.onopen
onopen ==
    /\ ws = "connecting"
    /\ ws' = "open"
    /\ UNCHANGED <<server, projectId, project, loading, error, isRunning,
                   loads, cmds, listVars, mergeVars,
                   channelVars, createVars, seqVars>>

\* ws.current.onclose: the connection dropped
onclose ==
    /\ ws \in {"connecting", "open"}
    /\ ws' = "closed"
    /\ UNCHANGED <<server, projectId, project, loading, error, isRunning,
                   loads, cmds, listVars, mergeVars,
                   channelVars, createVars, seqVars>>

\* ws.current.onmessage, message.type === 'status_update': what the handler
\* does to the page
statusUpdateFrame(data) ==
    /\ ws = "open"
    /\ silence' = 0
    /\ project' = StatusUpdate(project, data)
    /\ isRunning' = RunningAfter(isRunning, data)
    /\ IF Has(data, "status") /\ data.status \in StopStatuses
       THEN loadProject
       ELSE UNCHANGED <<loading, error, loads>>
    /\ UNCHANGED <<server, projectId, ws, cmds, listVars, mergeVars,
                   pingTimer, others, crashed, errorToast, createVars>>

\* ws.current.onmessage, message.type === 'status_update'
OnStatusUpdate(data) ==
    /\ statusUpdateFrame(data)
    /\ UNCHANGED seqVars

\* a status_update frame the server can push for project id: any subset of
\* the three fields, with the values its job has now
TrueFrame(f, id) ==
    /\ DOMAIN f # {}
    /\ \A k \in DOMAIN f : f[k] = server[id][k]

\* ws.current.onmessage, message.type === 'status_update', for a frame the
\* server pushed from its job; a frame that finds project null is remembered
OnPushed(data) ==
    /\ TrueFrame(data, projectId)
    /\ statusUpdateFrame(data)
    /\ dropped' = IF project = Null THEN data ELSE dropped
    /\ UNCHANGED <<qLast, qMax>>

\* OnError clearing the running flag
OnError_StopsRunning(data) ==
    /\ ws = "open"
    /\ silence' = 0
    /\ isRunning' = FALSE
    /\ errorToast' = IF Has(data, "message") /\ data.message # ""
                     THEN data.message ELSE "An error occurred"
    /\ UNCHANGED <<server, projectId, project, loading, error, ws,
                   loads, cmds, listVars, mergeVars,
                   pingTimer, others, crashed, createVars, seqVars>>

\* ws.current.onmessage, message.type === 'error'
OnError(data) ==
    /\ ws = "open"
    /\ silence' = 0
    /\ errorToast' = IF Has(data, "message") /\ data.message # ""
                     THEN data.message ELSE "An error occurred"
    /\ UNCHANGED <<server, projectId, project, loading, error, isRunning, ws,
                   loads, cmds, listVars, mergeVars,
                   pingTimer, others, crashed, createVars, seqVars>>

\* OnCompletion marking the job completed itself
OnCompletion_SetsCompleted ==
    /\ ws = "open"
    /\ silence' = 0
    /\ project' = IF project = Null THEN project
                  ELSE [project EXCEPT !.status = "completed",
                                       !.completion_percentage = 100]
    /\ isRunning' = FALSE
    /\ loadProject
    /\ UNCHANGED <<server, projectId, ws, cmds, listVars, mergeVars,
                   pingTimer, others, crashed, errorToast, createVars, seqVars>>

\* ws.current.onmessage, message.type === 'completion'
OnCompletion ==
    /\ ws = "open"
    /\ silence' = 0
    /\ loadProject
    /\ UNCHANGED <<server, projectId, project, isRunning, ws, cmds,
                   listVars, mergeVars,
                   pingTimer, others, crashed, errorToast, createVars, seqVars>>

\* loadProject after the await: getProject returned the project
loadProjectData(r) ==
    /\ BagIn(r, loads)
    /\ project' = r.data
    /\ isRunning' = (r.data.status = "running")
    /\ loading' = FALSE
    /\ loads' = loads (-) SetToBag({r})
    /\ UNCHANGED <<server, projectId, error, ws, cmds, listVars, mergeVars,
                   channelVars, createVars, seqVars>>

\* loadProject after the await: the request failed and getProject returned null
loadProjectNull(r) ==
    /\ BagIn(r, loads)
    /\ error' = "Project not found"
    /\ loading' = FALSE
    /\ loads' = loads (-) SetToBag({r})
    /\ UNCHANGED <<server, projectId, project, isRunning, ws, cmds,
                   listVars, mergeVars,
                   channelVars, createVars, seqVars>>

\* the stale timeout of the push channel, in ping periods
StaleAfter == 2

\* the callback of pingInterval: a ping is sent when the socket is open
PingTick ==
    /\ pingTimer > 0
    /\ IF ws = "open"
       THEN /\ silence < MaxSilence
            /\ silence' = silence + 1
       ELSE UNCHANGED silence
    /\ UNCHANGED <<server, detailVars, listVars, mergeVars,
                   pingTimer, others, crashed, errorToast, createVars, seqVars>>

\* ws.current.onmessage, message.type === 'pong': no branch handles it
OnPong ==
    /\ ws = "open"
    /\ silence' = 0
    /\ UNCHANGED <<server, detailVars, listVars, mergeVars,
                   pingTimer, others, crashed, errorToast, createVars, seqVars>>

\* closeSocket without the call of close()
closeSocket_LeavesOpen ==
    IF ws \in {"connecting", "open"}
    THEN others (+) SetToBag({[id |-> projectId, state |-> ws]})
    ELSE others

\* the sockets left behind once ws.current.close() is called: the socket of
\* this effect run is closing until its close event
closeSocket ==
    IF ws \in {"connecting", "open"}
    THEN others (+) SetToBag({[id |-> projectId, state |-> "closing"]})
    ELSE others

\* the close event of a socket an earlier cleanup closed
SocketClosed(sock) ==
    /\ BagIn(sock, others)
    /\ sock.state = "closing"
    /\ others' = others (-) SetToBag({sock})
    /\ UNCHANGED <<server, detailVars, listVars, mergeVars,
                   pingTimer, silence, crashed, errorToast, createVars, seqVars>>

\* ProjectDetail is unmounted: the cleanup of the WebSocket effect has run and
\* the state of the component is gone with its pending requests
DetailGone ==
    /\ BagCardinality(others) < MaxOld
    /\ others' = closeSocket
    /\ pingTimer' = pingTimer - 1
    /\ silence' = 0
    /\ projectId' = "none"
    /\ project' = Null
    /\ loading' = TRUE
    /\ error' = NoError
    /\ isRunning' = FALSE
    /\ ws' = "closed"
    /\ loads' = EmptyBag
    /\ cmds' = <<>>

\* DetailUnmount without clearInterval(pingInterval)
DetailUnmount_KeepsTimer ==
    /\ projectId # "none"
    /\ BagCardinality(others) < MaxOld
    /\ others' = closeSocket
    /\ silence' = 0
    /\ projectId' = "none"
    /\ project' = Null
    /\ loading' = TRUE
    /\ error' = NoError
    /\ isRunning' = FALSE
    /\ ws' = "closed"
    /\ loads' = EmptyBag
    /\ cmds' = <<>>
    /\ mounted' = TRUE
    /\ interval' = TRUE
    /\ UNCHANGED <<server, projects, listLoading, listError, fetches, mergeVars,
                   pingTimer, crashed, errorToast, createVars, seqVars>>

\* the link to / is followed: ProjectDetail unmounts (the cleanup of its
\* WebSocket effect runs) and Dashboard mounts
DetailUnmount ==
    /\ projectId # "none"
    /\ DetailGone
    /\ mounted' = TRUE
    /\ interval' = TRUE
    /\ UNCHANGED <<server, projects, listLoading, listError, fetches, mergeVars,
                   crashed, errorToast, createVars, seqVars>>

\* the route parameter changes to another project while ProjectDetail stays
\* mounted: the cleanup of the WebSocket effect runs, then both effects run
\* again (new WebSocket, new interval, loadProject)
ChangeProject(id) ==
    /\ projectId \notin {"none", id}
    /\ id \in DOMAIN server
    /\ BagCardinality(others) < MaxOld
    /\ BagCardinality(loads) < MaxLoads
    /\ others' = closeSocket
    /\ pingTimer' = (pingTimer - 1) + 1
    /\ silence' = 0
    /\ projectId' = id
    /\ ws' = "connecting"
    /\ loading' = TRUE
    /\ error' = NoError
    /\ loads' = loads (+) SetToBag({[id |-> id, data |-> server[id]]})
    /\ UNCHANGED <<server, project, isRunning, cmds, listVars, mergeVars,
                   crashed, errorToast, createVars, seqVars>>

\* the frames onmessage cannot read: a payload that is not JSON, and the
\* envelopes of status_update and error without data
Malformed == {"unparseable", "status_update", "error"}

\* ws.current.onmessage with a malformed frame. JSON.parse or the read of
\* message.data throws inside the try and the catch logs it; for status_update
\* the updater is already queued by setProject, and it reads message.data when
\* React runs it on a loaded project: the error is thrown while rendering,
\* outside the try, and React tears the tree down
OnMalformed(kind) ==
    /\ ws = "open"
    /\ IF kind = "status_update" /\ project # Null
       THEN /\ crashed' = TRUE
            /\ DetailGone
            /\ projects' = <<>>
            /\ listLoading' = FALSE
            /\ listError' = NoError
            /\ fetches' = EmptyBag
            /\ mounted' = FALSE
            /\ interval' = FALSE
       ELSE /\ silence' = 0
            /\ UNCHANGED <<detailVars, listVars, pingTimer, others, crashed>>
    /\ UNCHANGED <<server, mergeVars, errorToast, createVars, seqVars>>

\* the page renders its buttons
Rendered == ~(loading /\ project = Null) /\ error = NoError /\ project # Null

canRun == project.status \in {"created", "failed", "cancelled", "completed"}
\* the Cancel button rendered whatever the status
canCancel_Any == project.status \in Statuses

canCancel == project.status = "running"

\* handleRunProject up to the await: the POST reaches the server
handleRunProject ==
    /\ Rendered /\ canRun /\ ~isRunning
    /\ Len(cmds) < MaxCmds
    /\ \/ /\ server[projectId].status # "running"
          /\ server[projectId].status \in Terminal => server[projectId].generation < MaxGen
          /\ server' = [server EXCEPT ![projectId] = ServerStart(@)]
          /\ cmds' = Append(cmds, [kind |-> "run", ok |-> TRUE])
       \/ /\ UNCHANGED server
          /\ cmds' = Append(cmds, [kind |-> "run", ok |-> FALSE])
    /\ UNCHANGED <<projectId, project, loading, error, isRunning, ws, loads, listVars, mergeVars,
                   channelVars, createVars, seqVars>>

\* handleRunProject after the await
runProjectReturns ==
    /\ cmds # <<>> /\ Head(cmds).kind = "run"
    /\ IF Head(cmds).ok
       THEN isRunning' = TRUE
       ELSE UNCHANGED isRunning
    /\ cmds' = Tail(cmds)
    /\ UNCHANGED <<server, projectId, project, loading, error, ws, loads,
                   listVars, mergeVars,
                   channelVars, createVars, seqVars>>

\* handleCancelProject up to the await: the POST reaches the server
handleCancelProject ==
    /\ Rendered /\ canCancel
    /\ Len(cmds) < MaxCmds
    /\ \/ /\ server[projectId].status = "running"
          /\ server' = [server EXCEPT ![projectId] = ServerCancel(@)]
          /\ cmds' = Append(cmds, [kind |-> "cancel", ok |-> TRUE])
       \/ /\ UNCHANGED server
          /\ cmds' = Append(cmds, [kind |-> "cancel", ok |-> FALSE])
    /\ UNCHANGED <<projectId, project, loading, error, isRunning, ws, loads, listVars, mergeVars,
                   channelVars, createVars, seqVars>>

\* handleCancelProject after the await
cancelProjectReturns ==
    /\ cmds # <<>> /\ Head(cmds).kind = "cancel"
    /\ IF Head(cmds).ok
       THEN /\ isRunning' = FALSE
            /\ loadProject
       ELSE UNCHANGED <<isRunning, loading, error, loads>>
    /\ cmds' = Tail(cmds)
    /\ UNCHANGED <<server, projectId, project, ws, listVars, mergeVars,
                   channelVars, createVars, seqVars>>

----------------------------------------------------------------------------
\* ProjectProvider and Dashboard

\* GET /api/projects: response.data.projects
ProjectList ==
    LET ids == SelectSeq(<<"p1", "p2">>, LAMBDA id : id \in DOMAIN server)
    IN  [k \in 1..Len(ids) |-> server[ids[k]]]

\* fetchProjects up to the await of api.get
fetchProjects(origin) ==
    /\ BagCardinality(fetches) < MaxFetch
    /\ listLoading' = TRUE
    /\ listError' = NoError
    /\ fetches' = fetches (+) SetToBag({[origin |-> origin, data |-> ProjectList]})

\* createProject after its await of fetchProjects: it returns the project_id to
\* handleSubmit, which toasts and calls navigate
createProjectReturns(r) ==
    create' = IF r.origin = "create" THEN [create EXCEPT !.pc = "returned"]
              ELSE create

\* fetchProjects after the await: the request succeeded
fetchProjectsData(r) ==
    /\ BagIn(r, fetches)
    /\ projects' = r.data
    /\ listLoading' = FALSE
    /\ fetches' = fetches (-) SetToBag({r})
    /\ createProjectReturns(r)
    /\ UNCHANGED <<server, detailVars, listError, mounted, interval, mergeVars,
                   channelVars, seqVars>>

\* fetchProjectsCatch emptying the list
fetchProjectsCatch_Clears(r) ==
    /\ BagIn(r, fetches)
    /\ projects' = <<>>
    /\ listError' = "Failed to fetch projects"
    /\ listLoading' = FALSE
    /\ fetches' = fetches (-) SetToBag({r})
    /\ createProjectReturns(r)
    /\ UNCHANGED <<server, detailVars, mounted, interval, mergeVars,
                   channelVars, seqVars>>

\* fetchProjects after the await: the request failed
fetchProjectsCatch(r) ==
    /\ BagIn(r, fetches)
    /\ listError' = "Failed to fetch projects"
    /\ listLoading' = FALSE
    /\ fetches' = fetches (-) SetToBag({r})
    /\ createProjectReturns(r)
    /\ UNCHANGED <<server, detailVars, projects, mounted, interval, mergeVars,
                   channelVars, seqVars>>

\* tick skipping the fetch once an error is recorded
tick_StopsOnError ==
    /\ interval
    /\ listError = NoError
    /\ fetchProjects("poll")
    /\ UNCHANGED <<server, detailVars, projects, mounted, interval, mergeVars,
                   channelVars, createVars, seqVars>>

\* Dashboard: the callback of setInterval
tick ==
    /\ interval
    /\ fetchProjects("poll")
    /\ UNCHANGED <<server, detailVars, projects, mounted, interval, mergeVars,
                   channelVars, createVars, seqVars>>

\* Dashboard: the cleanup of the effect on unmount
DashboardUnmount ==
    /\ mounted
    /\ mounted' = FALSE
    /\ interval' = FALSE
    /\ UNCHANGED <<server, detailVars, projects, listLoading, listError, fetches, mergeVars,
                   channelVars, createVars, seqVars>>

\* Dashboard: the effect on mount
DashboardMount ==
    /\ ~mounted
    /\ projectId = "none"
    /\ mounted' = TRUE
    /\ interval' = TRUE
    /\ UNCHANGED <<server, detailVars, projects, listLoading, listError, fetches, mergeVars,
                   channelVars, createVars, seqVars>>

\* Dashboard: the link of a table row is followed; Dashboard unmounts and
\* ProjectDetail mounts with its initial state and runs its two effects
OpenProject(id) ==
    /\ mounted
    /\ ~(listLoading /\ Len(projects) = 0) /\ listError = NoError
    /\ \E k \in 1..Len(projects) : projects[k].project_id = id
    /\ mounted' = FALSE
    /\ interval' = FALSE
    /\ projectId' = id
    /\ project' = Null
    /\ loading' = TRUE
    /\ error' = NoError
    /\ isRunning' = FALSE
    /\ ws' = "connecting"
    /\ loads' = SetToBag({[id |-> id, data |-> server[id]]})
    /\ cmds' = <<>>
    /\ pingTimer' = pingTimer + 1
    /\ silence' = 0
    /\ UNCHANGED <<server, projects, listLoading, listError, fetches, mergeVars,
                   others, crashed, errorToast, createVars, seqVars>>

----------------------------------------------------------------------------
\* ProjectCreate

\* the texts typed into the name and requirements fields, as character sequences
Texts == {<<>>, <<" ">>, <<" ", " ">>, <<"a">>, <<" ", "a", " ">>}

RECURSIVE trimStart(_)
trimStart(s) == IF s # <<>> /\ Head(s) = " " THEN trimStart(Tail(s)) ELSE s

RECURSIVE trimEnd(_)
trimEnd(s) ==
    IF s # <<>> /\ s[Len(s)] = " " THEN trimEnd(SubSeq(s, 1, Len(s) - 1)) ELSE s

\* String.prototype.trim
trim(s) == trimEnd(trimStart(s))

\* the id the server gives to the project it creates
NewId == "p2"

\* handleSubmit up to the await of createProject, and createProject up to the
\* await of api.post: either a field is blank and the handler returns, or the
\* POST reaches the server, which creates the project unless the request fails
handleSubmit(name, requirements) ==
    /\ create.pc \in {"form", "invalid", "failed"}
    /\ IF trim(name) = <<>> \/ trim(requirements) = <<>>
       THEN /\ create' = [pc |-> "invalid", id |-> "none"]
            /\ UNCHANGED server
       ELSE \/ /\ NewId \notin DOMAIN server
               /\ server' = server @@ (NewId :> CreatedJob(NewId))
               /\ create' = [pc |-> "post", id |-> NewId]
            \/ /\ UNCHANGED server
               /\ create' = [pc |-> "post", id |-> "null"]
    /\ UNCHANGED <<detailVars, listVars, mergeVars, channelVars, seqVars>>

\* createProject after the await of api.post: it awaits fetchProjects, or the
\* catch returns null and handleSubmit toasts 'Creation failed'
createProjectPosted ==
    /\ create.pc = "post"
    /\ IF create.id # "null"
       THEN /\ fetchProjects("create")
            /\ create' = [create EXCEPT !.pc = "fetch"]
       ELSE /\ create' = [pc |-> "failed", id |-> "none"]
            /\ UNCHANGED <<listLoading, listError, fetches>>
    /\ UNCHANGED <<server, detailVars, projects, mounted, interval, mergeVars,
                   channelVars, seqVars>>

\* the navigation handleSubmit asked for: ProjectCreate unmounts and
\* ProjectDetail mounts on the new project and runs its two effects
ShowCreated ==
    /\ create.pc = "returned"
    /\ create' = NoCreate
    /\ projectId' = create.id
    /\ project' = Null
    /\ loading' = TRUE
    /\ error' = NoError
    /\ isRunning' = FALSE
    /\ ws' = "connecting"
    /\ loads' = SetToBag({[id |-> create.id, data |-> server[create.id]]})
    /\ cmds' = <<>>
    /\ pingTimer' = pingTimer + 1
    /\ silence' = 0
    /\ UNCHANGED <<server, listVars, mergeVars, others, crashed, errorToast, seqVars>>

----------------------------------------------------------------------------
\* Initial state: ProjectDetail mounted on p1, its two effects have run
\* (the WebSocket is connecting, the first loadProject awaits getProject)

InitServer == server = [id \in ProjectIds |-> CreatedJob(id)]

InitDetail ==
    /\ projectId = "p1"
    /\ project = Null
    /\ loading = TRUE
    /\ error = NoError
    /\ isRunning = FALSE
    /\ ws = "connecting"
    /\ loads = SetToBag({[id |-> "p1", data |-> server["p1"]]})
    /\ cmds = <<>>
    /\ pingTimer = 1
    /\ silence = 0
    /\ others = EmptyBag
    /\ crashed = FALSE
    /\ errorToast = "none"

InitList ==
    /\ projects = <<>>
    /\ listLoading = FALSE
    /\ listError = NoError
    /\ fetches = EmptyBag
    /\ mounted = FALSE
    /\ interval = FALSE

InitMerge ==
    /\ mJob = Null
    /\ mOnce = Null
    /\ mUpd = Null
    /\ mStep = 0

InitCreate == create = NoCreate

InitSeq ==
    /\ qLast = 0
    /\ qMax = 0
    /\ dropped = Null

Init == InitServer /\ InitDetail /\ InitList /\ InitMerge /\ InitCreate /\ InitSeq

\* Initial state of the Dashboard route: ProjectProvider and Dashboard mounted,
\* the provider's mount effect has called fetchProjects; a job may be running
\* from an earlier visit
RunningJob(id) == Job(id, "running", 0, "", <<>>, 0, 1)

InitRoute ==
    /\ projectId = "none"
    /\ project = Null
    /\ loading = TRUE
    /\ error = NoError
    /\ isRunning = FALSE
    /\ ws = "closed"
    /\ loads = EmptyBag
    /\ cmds = <<>>
    /\ projects = <<>>
    /\ listLoading = TRUE
    /\ listError = NoError
    /\ fetches = SetToBag({[origin |-> "mount", data |-> ProjectList]})
    /\ mounted = TRUE
    /\ interval = TRUE
    /\ pingTimer = 0
    /\ silence = 0
    /\ others = EmptyBag
    /\ crashed = FALSE
    /\ errorToast = "none"
    /\ InitMerge /\ InitCreate /\ InitSeq

InitDashboard ==
    /\ server \in [ProjectIds -> {CreatedJob("p1"), RunningJob("p1")}]
    /\ InitRoute

NextList ==
    \/ \E id \in ProjectIds : ServerProgress(id)
    \/ \E id \in ProjectIds, st \in {"completed", "partially_completed", "failed"} :
          ServerFinish(id, st)
    \/ tick
    \/ \E r \in BagToSet(fetches) : fetchProjectsData(r)
    \/ \E r \in BagToSet(fetches) : fetchProjectsCatch(r)
    \/ DashboardUnmount
    \/ DashboardMount

SpecList == InitDashboard /\ [][NextList]_vars

\* the timer fires while it is armed, and every request ends (response or error)
FairSpecList ==
    /\ SpecList
    /\ WF_vars(tick)
    /\ WF_vars(\E r \in BagToSet(fetches) : fetchProjectsData(r) \/ fetchProjectsCatch(r))

\* The route /projects/new: ProjectProvider and ProjectCreate mounted, the
\* provider's mount effect has called fetchProjects
InitCreateRoute ==
    /\ server \in [ProjectIds -> {CreatedJob("p1"), RunningJob("p1")}]
    /\ projectId = "none"
    /\ project = Null
    /\ loading = TRUE
    /\ error = NoError
    /\ isRunning = FALSE
    /\ ws = "closed"
    /\ loads = EmptyBag
    /\ cmds = <<>>
    /\ projects = <<>>
    /\ listLoading = TRUE
    /\ listError = NoError
    /\ fetches = SetToBag({[origin |-> "mount", data |-> ProjectList]})
    /\ mounted = FALSE
    /\ interval = FALSE
    /\ pingTimer = 0
    /\ silence = 0
    /\ others = EmptyBag
    /\ crashed = FALSE
    /\ errorToast = "none"
    /\ create = [pc |-> "form", id |-> "none"]
    /\ InitMerge /\ InitSeq

NextCreate ==
    \/ \E id \in ProjectIds : ServerProgress(id)
    \/ \E id \in ProjectIds, st \in {"completed", "partially_completed", "failed"} :
          ServerFinish(id, st)
    \/ \E name \in Texts, requirements \in Texts : handleSubmit(name, requirements)
    \/ createProjectPosted
    \/ \E r \in BagToSet(fetches) : fetchProjectsData(r)
    \/ \E r \in BagToSet(fetches) : fetchProjectsCatch(r)
    \/ ShowCreated

SpecCreate == InitCreateRoute /\ [][NextCreate]_vars

\* The merge of one update into the job state of ProjectDetail, as a function:
\* the state is drawn from the job states of the page, the update from the
\* status_update frames and the snapshots getProject can return
LocalJobs ==
    {Job("p1", st, pct, node, <<>>, ga[2], ga[1]) :
        st \in Statuses, pct \in FramePcts \cup {100}, node \in FrameNodes,
        ga \in {<<1, 0>>, <<1, 1>>, <<2, 0>>, <<2, 2>>}}

Snapshots ==
    {CreatedJob("p1"), RunningJob("p1"),
     Job("p1", "running", 65, "plan", <<>>, 0, 1),
     Job("p1", "completed", 100, "plan", <<>>, 1, 1),
     Job("p1", "failed", 65, "plan", <<"generation failed">>, 0, 1),
     Job("p1", "running", 0, "", <<>>, 0, 2),
     Job("p1", "partially_completed", 65, "plan", <<>>, 2, 2)}

Updates ==
    {[kind |-> "partial", data |-> f] : f \in Frames}
        \cup {[kind |-> "full", data |-> j] : j \in Snapshots}

\* the job state after the handler of the update has run
Merge(js, upd) ==
    IF upd.kind = "partial"
    THEN [project |-> StatusUpdate(js.project, upd.data),
          isRunning |-> RunningAfter(js.isRunning, upd.data)]
    ELSE [project |-> upd.data, isRunning |-> (upd.data.status = "running")]

InitMergeSpec ==
    /\ InitServer /\ InitDetail /\ InitList /\ InitCreate /\ InitSeq
    /\ mJob \in {[project |-> p, isRunning |-> b] :
                     p \in LocalJobs \cup {Null}, b \in BOOLEAN}
    /\ mUpd \in Updates
    /\ mOnce = Null
    /\ mStep = 0

MergeFirst ==
    /\ mStep = 0
    /\ mJob' = Merge(mJob, mUpd)
    /\ mOnce' = Merge(mJob, mUpd)
    /\ mStep' = 1
    /\ UNCHANGED <<server, detailVars, listVars, mUpd, channelVars, createVars, seqVars>>

MergeAgain ==
    /\ mStep = 1
    /\ mJob' = Merge(mJob, mUpd)
    /\ mStep' = 2
    /\ UNCHANGED <<server, detailVars, listVars, mUpd, mOnce, channelVars, createVars, seqVars>>

NextMerge == MergeFirst \/ MergeAgain

SpecMerge == InitMergeSpec /\ [][NextMerge]_vars

\* A sequence of status_update frames applied one after the other to a loaded
\* running job. The frames carry a completion_percentage and no status, and each
\* completion_percentage is at least the one of the frame before it
SeqFrames ==
    {f \in Frames : Has(f, "completion_percentage") /\ ~Has(f, "status")}

Max(a, b) == IF a >= b THEN a ELSE b

InitSeqSpec ==
    /\ InitServer /\ InitDetail /\ InitList /\ InitCreate
    /\ mJob \in {[project |-> p, isRunning |-> TRUE] :
                     p \in {j \in LocalJobs : j.status = "running"}}
    /\ mUpd = Null
    /\ mOnce = Null
    /\ mStep = 0
    /\ qLast = 0
    /\ qMax = mJob.project.completion_percentage
    /\ dropped = Null

SeqFrame(data) ==
    /\ mStep < MaxFrames
    /\ data.completion_percentage >= qLast
    /\ mJob' = Merge(mJob, [kind |-> "partial", data |-> data])
    /\ mUpd' = [kind |-> "partial", data |-> data]
    /\ mStep' = mStep + 1
    /\ qLast' = data.completion_percentage
    /\ qMax' = Max(qMax, data.completion_percentage)
    /\ UNCHANGED <<server, detailVars, listVars, mOnce, channelVars, createVars, dropped>>

NextSeq == \E data \in SeqFrames : SeqFrame(data)

SpecSeq == InitSeqSpec /\ [][NextSeq]_vars

\* ProjectDetail watching a job without commanding it: both channels with every
\* frame, no button pressed; the job may be running from an earlier visit
InitWatch ==
    /\ server \in [ProjectIds -> {CreatedJob("p1"), RunningJob("p1")}]
    /\ InitDetail /\ InitList /\ InitMerge /\ InitCreate /\ InitSeq

NextWatch ==
    \/ \E id \in ProjectIds : ServerProgress(id)
    \/ \E id \in ProjectIds, st \in {"completed", "partially_completed", "failed"} :
          ServerFinish(id, st)
    \/ onopen
    \/ onclose
    \/ \E data \in Frames : OnStatusUpdate(data)
    \/ \E data \in ErrorFrames : OnError(data)
    \/ OnCompletion
    \/ \E r \in BagToSet(loads) : loadProjectData(r)
    \/ \E r \in BagToSet(loads) : loadProjectNull(r)

SpecWatch == InitWatch /\ [][NextWatch]_vars

\* The pull channel of both routes: the list fetches of the Dashboard route, the
\* link to a project, and the job fetches of ProjectDetail; no button pressed
NextPull ==
    \/ NextList
    \/ \E id \in ProjectIds : OpenProject(id)
    \/ onopen
    \/ OnCompletion
    \/ \E r \in BagToSet(loads) : loadProjectData(r)
    \/ \E r \in BagToSet(loads) : loadProjectNull(r)

SpecPull == InitDashboard /\ [][NextPull]_vars

\* The push channel of ProjectDetail on one project: every kind of frame, the
\* malformed ones included, the ping timer, and the connection dropping
NextChannel ==
    \/ \E id \in ProjectIds : ServerProgress(id)
    \/ \E id \in ProjectIds, st \in {"completed", "partially_completed", "failed"} :
          ServerFinish(id, st)
    \/ onopen
    \/ onclose
    \/ \E data \in PushFrames : OnStatusUpdate(data)
    \/ \E data \in ErrorFrames : OnError(data)
    \/ OnCompletion
    \/ OnPong
    \/ \E kind \in Malformed : OnMalformed(kind)
    \/ PingTick
    \/ \E r \in BagToSet(loads) : loadProjectData(r)
    \/ \E r \in BagToSet(loads) : loadProjectNull(r)

SpecChannel == InitWatch /\ [][NextChannel]_vars

\* The routes / and /projects/:projectId over two projects: Dashboard and
\* ProjectDetail mount and unmount, the route parameter changes, the timers of
\* both pages fire and the sockets of ProjectDetail open and close
\* the frames of the progress of a run
RouteFrames == {f \in PushFrames : Has(f, "completion_percentage")}

InitRoutes ==
    /\ server \in {("p1" :> j) @@ ("p2" :> CreatedJob("p2")) :
                      j \in {CreatedJob("p1"), RunningJob("p1")}}
    /\ InitRoute

NextRoutes ==
    \/ tick
    \/ \E r \in BagToSet(fetches) : fetchProjectsData(r)
    \/ \E r \in BagToSet(fetches) : fetchProjectsCatch(r)
    \/ \E id \in DOMAIN server : OpenProject(id)
    \/ \E id \in DOMAIN server : ChangeProject(id)
    \/ DetailUnmount
    \/ onopen
    \/ onclose
    \/ \E sock \in BagToSet(others) : SocketClosed(sock)
    \/ PingTick
    \/ OnPong
    \/ \E data \in RouteFrames : OnStatusUpdate(data)
    \/ \E r \in BagToSet(loads) : loadProjectData(r)
    \/ \E r \in BagToSet(loads) : loadProjectNull(r)

SpecRoutes == InitRoutes /\ [][NextRoutes]_vars

\* ProjectDetail opening on a job that runs on the server: the first
\* loadProject races with the frames the server pushes from its job
NextEarly ==
    \/ \E id \in ProjectIds : ServerProgress(id)
    \/ \E id \in ProjectIds, st \in {"completed", "partially_completed", "failed"} :
          ServerFinish(id, st)
    \/ onopen
    \/ \E data \in Frames : OnPushed(data)
    \/ OnCompletion
    \/ \E r \in BagToSet(loads) : loadProjectData(r)
    \/ \E r \in BagToSet(loads) : loadProjectNull(r)

SpecEarly == InitWatch /\ [][NextEarly]_vars

\* ProjectDetail with its two buttons and the pull channel: the job is started
\* and cancelled from the page, and followed by loadProject only
NextButtons ==
    \/ \E id \in ProjectIds : ServerProgress(id)
    \/ \E id \in ProjectIds, st \in {"completed", "partially_completed", "failed"} :
          ServerFinish(id, st)
    \/ onopen
    \/ OnCompletion
    \/ \E r \in BagToSet(loads) : loadProjectData(r)
    \/ \E r \in BagToSet(loads) : loadProjectNull(r)
    \/ handleRunProject
    \/ runProjectReturns
    \/ handleCancelProject
    \/ cancelProjectReturns

SpecButtons == Init /\ [][NextButtons]_vars

Next ==
    \/ \E id \in ProjectIds : ServerProgress(id)
    \/ \E id \in ProjectIds, st \in {"completed", "partially_completed", "failed"} :
          ServerFinish(id, st)
    \/ onopen
    \/ \E data \in PushFrames : OnStatusUpdate(data)
    \/ \E data \in ErrorFrames : OnError(data)
    \/ OnCompletion
    \/ \E r \in BagToSet(loads) : loadProjectData(r)
    \/ \E r \in BagToSet(loads) : loadProjectNull(r)
    \/ handleRunProject
    \/ runProjectReturns
    \/ handleCancelProject
    \/ cancelProjectReturns

Spec == Init /\ [][Next]_vars

----------------------------------------------------------------------------
\* Claims

\* C1: while the job is running, a status_update frame that carries only a
\* completion_percentage, lower than the job's (the generation of the job is
\* the same before and after), is rejected: the job is left as it was.
C1_StalePartialRejected ==
    [][\A data \in Frames :
          (/\ OnStatusUpdate(data)
           /\ DOMAIN data = {"completion_percentage"}
           /\ project # Null
           /\ project.status = "running"
           /\ Has(data, "completion_percentage")
           /\ data.completion_percentage < project.completion_percentage
           /\ project'.generation = project.generation)
          => project' = project]_vars

\* C2: once the server has restarted the job, the local job is never running
\* with the generation or the artifacts of the run before.
C2_RestartResets ==
    (/\ project # Null
     /\ project.status = "running"
     /\ server[projectId].generation > 1)
    => (/\ project.generation = server[projectId].generation
        /\ project.artifacts = 0)

ValidEdge(from, to) ==
    \/ from = "created" /\ to = "running"
    \/ from = "running" /\ to \in Terminal
    \/ from \in Terminal /\ to = "running"

\* C3: the status of the local job changes only along created->running,
\* running->terminal and terminal->running.
C3_OnlyValidEdges ==
    [][(/\ project # Null
        /\ project' # Null
        /\ project'.status # project.status)
       => ValidEdge(project.status, project'.status)]_vars

\* C4: a pulled snapshot whose generation is lower than the local job's is
\* rejected: the local job is left as it was.
C4_StaleSnapshotRejected ==
    [][\A r \in BagToSet(loads) :
          (/\ loadProjectData(r)
           /\ project # Null
           /\ r.data.generation < project.generation)
          => project' = project]_vars

\* the list fetches in flight that the interval issued
PollCount ==
    BagCardinality([r \in {x \in BagToSet(fetches) : x.origin = "poll"} |-> fetches[r]])

\* C5: at most one list fetch issued by the poller is in flight.
C5_NoOverlappingPoll == PollCount <= 1

\* C6: a completion frame leaves the job and the running flag as they were and
\* issues one fetch of the job's current server record; when a fetch returns a
\* project, the job becomes that project.
C6_CompletionRefetches ==
    [][/\ OnCompletion =>
            /\ project' = project
            /\ isRunning' = isRunning
            /\ loads' = loads (+) SetToBag({[id |-> projectId, data |-> server[projectId]]})
       /\ \A r \in BagToSet(loads) :
            loadProjectData(r) =>
                /\ project' = r.data
                /\ isRunning' = (r.data.status = "running")]_vars

\* C6 witness: the refetch carrying the completed job with its artifacts is in
\* flight while the job is still shown running
C6_Witness ==
    /\ project # Null /\ project.status = "running" /\ isRunning
    /\ \E r \in BagToSet(loads) : r.data.status = "completed" /\ r.data.artifacts # 0

\* C7: a failed fetch keeps the snapshot held (the projects list, the project),
\* records the error, and issues no request.
C7_FailedFetchKeepsSnapshot ==
    [][/\ \A r \in BagToSet(fetches) :
            fetchProjectsCatch(r) =>
                /\ projects' = projects
                /\ listError' = "Failed to fetch projects"
                /\ fetches' = fetches (-) SetToBag({r})
                /\ loads' = loads
       /\ \A r \in BagToSet(loads) :
            loadProjectNull(r) =>
                /\ project' = project
                /\ isRunning' = isRunning
                /\ error' = "Project not found"
                /\ loads' = loads (-) SetToBag({r})
                /\ fetches' = fetches]_vars

\* C7 witness: both fetches have failed with a snapshot held
C7_Witness ==
    /\ listError = "Failed to fetch projects" /\ Len(projects) > 0
    /\ error = "Project not found" /\ project # Null

\* C8: while the Dashboard stays mounted, a failed fetch is followed by a tick
\* that issues a fetch.
C8_FailuresDoNotStopPolling ==
    (mounted /\ listError = "Failed to fetch projects" /\ PollCount = 0)
        ~> (~mounted \/ PollCount > 0)

\* C8 witness: a fetch has failed, the Dashboard is mounted, no poll in flight
C8_Witness ==
    /\ mounted /\ listError = "Failed to fetch projects" /\ PollCount = 0
    /\ Len(projects) > 0

\* the job with exactly the fields present in the frame overwritten
Patched(prev, data) ==
    [prev EXCEPT
       !.status = IF Has(data, "status") THEN data.status ELSE @,
       !.completion_percentage =
           IF Has(data, "completion_percentage") THEN data.completion_percentage ELSE @,
       !.current_node = IF Has(data, "current_node") THEN data.current_node ELSE @]

\* C9: a status_update frame overwrites the fields present in it with the
\* values it carries, 0 and the empty string included, and no other field.
C9_PresentFieldsOverwritten ==
    [][\A data \in Frames :
          (OnStatusUpdate(data) /\ project # Null) => project' = Patched(project, data)]_vars

\* C10: applying the same update twice gives the job state that applying it
\* once gives.
C10_Idempotent == mStep = 2 => mJob = mOnce

\* C10 witness: a frame carrying a percentage has been applied twice to a job
C10_Witness ==
    /\ mStep = 2
    /\ mUpd.kind = "partial"
    /\ Has(mUpd.data, "completion_percentage")
    /\ mUpd.data.completion_percentage # 0
    /\ mJob.project # Null
    /\ mJob.project.completion_percentage = mUpd.data.completion_percentage

\* C11: status_update frames with non-decreasing completion_percentage values
\* are applied to a loaded running job: after each frame the job's
\* completion_percentage is the largest value seen so far, the value the job
\* had before the first frame included.
C11_LargestSoFar ==
    mStep > 0 => mJob.project.completion_percentage = qMax

\* C12: on the rendered page the start action is offered exactly when the job's
\* status is created, completed, partially_completed, failed or cancelled; it
\* is not offered while the status is running.
C12_StartOffered ==
    Rendered => (canRun <=> project.status \in {"created"} \cup Terminal)

\* C13: a cancel is issued from the page only while the job's status is
\* running, and issuing it leaves the job as it was; a cancel the server does
\* not accept (its job is not running) changes neither the server's job nor,
\* when it returns, the page's job state.
C13_CancelOnlyWhenRunning ==
    [][/\ handleCancelProject =>
            /\ project.status = "running"
            /\ UNCHANGED <<project, isRunning, loading, error, loads>>
            /\ server[projectId].status # "running" => UNCHANGED server
       /\ (cancelProjectReturns /\ ~Head(cmds).ok) =>
            UNCHANGED <<project, isRunning, loading, error, loads>>]_vars

\* a cancel the server has rejected awaits its return: the page still shows the
\* job running, the server's job has ended
C13_Witness ==
    /\ cmds # <<>>
    /\ Head(cmds).kind = "cancel"
    /\ ~Head(cmds).ok
    /\ project # Null
    /\ project.status = "running"
    /\ server[projectId].status \in Terminal

\* C14: when createProject returns the id of the project it created, the
\* project is in the local list with status created.
C14_CreatedInList ==
    create.pc = "returned" =>
        \E k \in 1..Len(projects) :
            /\ projects[k].project_id = create.id
            /\ projects[k].status = "created"

\* C15: an error frame changes neither the job nor the running flag, starts no
\* request and leaves the connection as it is; it only shows a notification.
C15_ErrorFrameOnlyNotifies ==
    [][\A data \in ErrorFrames :
          OnError(data) =>
              /\ UNCHANGED <<project, isRunning, loading, error, loads, ws>>
              /\ errorToast' # "none"]_vars

\* the notification of an error frame is shown and the job is still running
C15_Witness ==
    /\ errorToast = "node failed"
    /\ ws = "open"
    /\ project # Null
    /\ project.status = "running"
    /\ isRunning

\* C16: a malformed frame (a payload that cannot be parsed, or an envelope
\* without data) is dropped: the job, the running flag and the connection are
\* as before, no request is started, and no error escapes the handler.
C16_MalformedDropped ==
    [][\A kind \in Malformed :
          OnMalformed(kind) =>
              /\ UNCHANGED <<project, isRunning, loading, error, loads, ws>>
              /\ ~crashed']_vars

\* the sockets for project id that are connecting or open: the one of the
\* current effect run and those earlier runs left behind
LiveSockets(id) ==
    (IF projectId = id /\ ws \in {"connecting", "open"} THEN 1 ELSE 0)
    + BagCardinality([sock \in {x \in BagToSet(others) :
                                    x.id = id /\ x.state \in {"connecting", "open"}}
                         |-> others[sock]])

\* C17: for every project at most one socket is connecting or open at any
\* time: a new socket is created only once the previous one has been closed,
\* and no second socket is created for a project that is already watched.
C17_OneConnectionPerId ==
    \A id \in DOMAIN server : LiveSockets(id) <= 1

\* the page watches a project again while the socket of its earlier watch of
\* the same project is still closing
C17_Witness ==
    /\ ws \in {"connecting", "open"}
    /\ \E sock \in BagToSet(others) : sock.id = projectId /\ sock.state = "closing"

\* C18: a socket on which no frame has arrived for more than StaleAfter ping
\* periods is stale and is closed: it is never open after that much silence.
C18_StaleForcedClosed ==
    ws = "open" => silence <= StaleAfter

\* C19: teardown stops every timer and closes the connection. While Dashboard
\* is not mounted its poll timer is not armed; while ProjectDetail is not
\* mounted no ping timer is armed and no socket is current; while it is
\* mounted exactly one ping timer is armed, so a change of projectId leaves
\* none behind; and every socket a cleanup left behind is closing, so that it
\* delivers no frame and carries no ping.
C19_TeardownStopsAll ==
    /\ ~mounted => ~interval
    /\ pingTimer = (IF projectId = "none" THEN 0 ELSE 1)
    /\ projectId = "none" => ws = "closed"
    /\ \A sock \in BagToSet(others) : sock.state = "closing"

\* ProjectDetail was unmounted with its socket open: Dashboard is back, the
\* socket of the page is closing
C19_Witness ==
    /\ projectId = "none"
    /\ mounted
    /\ others # EmptyBag

\* C20: whenever the job's status is created or running it has no artifacts.
C20_NoArtifactsBeforeEnd ==
    (project # Null /\ project.status \in {"created", "running"}) =>
        project.artifacts = 0

\* C21: a job that is treated as running stops being so when a terminal
\* status (completed, partially_completed, failed, cancelled) is observed: a
\* status_update frame with such a status clears the running flag and issues
\* a loadProject, and a loaded snapshot with such a status clears the flag.
C21_TerminalStopsRunning ==
    [][/\ \A data \in Frames :
            (/\ isRunning
             /\ Has(data, "status") /\ data.status \in Terminal
             /\ OnStatusUpdate(data)) =>
                /\ ~isRunning'
                /\ BagCardinality(loads') = BagCardinality(loads) + 1
       /\ \A r \in BagToSet(loads) :
            (isRunning /\ r.data.status \in Terminal /\ loadProjectData(r)) =>
                ~isRunning']_vars

\* C22: the job the page holds belongs to the project it watches: once every
\* loadProject has returned without an error, project, when it is not null,
\* has the project_id of the current projectId.
C22_JobOfWatchedId ==
    (project # Null /\ loads = EmptyBag /\ error = NoError) =>
        project.project_id = projectId

\* C23: when a list fetch completes and no fetch is left outstanding, the
\* list's error reflects that fetch: null if it succeeded, 'Failed to fetch
\* projects' if it failed, and loading is false.
C23_ErrorOfLastFetch ==
    [][\A r \in BagToSet(fetches) :
          /\ (fetchProjectsData(r) /\ fetches' = EmptyBag) =>
                (listError' = NoError /\ ~listLoading')
          /\ (fetchProjectsCatch(r) /\ fetches' = EmptyBag) =>
                (listError' = "Failed to fetch projects" /\ ~listLoading')]_vars

\* the place of a status in the life of one run
StatusRank(st) == IF st = "created" THEN 0 ELSE IF st = "running" THEN 1 ELSE 2

\* job j is at least as recent as frame f in status and completion_percentage
Covers(j, f) ==
    /\ Has(f, "status") => StatusRank(j.status) >= StatusRank(f.status)
    /\ Has(f, "completion_percentage") =>
            j.completion_percentage >= f.completion_percentage

\* C24: a status_update frame received while project is null is not lost: once
\* the job is loaded and no loadProject is pending, the job is at least as
\* recent as that frame in status and completion_percentage.
C24_EarlyFrameNotLost ==
    (project # Null /\ dropped # Null /\ loads = EmptyBag) =>
        Covers(project, dropped)

====
